---- MODULE Spec2Model ----
(***************************************************************************)
(* Model of ts/Data/GoogleDataStore.ts: the GoogleDataStore connector.     *)
(*                                                                         *)
(* Two specifications share the module's variables.                        *)
(*   Spec         the load pipeline: load(), the ajax success and error    *)
(*                handlers of fetchSheet, and the polling timer.           *)
(*   SpecBuilder  getSheetColumns applied to every feed and window of the  *)
(*                bounded input sets.                                      *)
(*                                                                         *)
(* JavaScript values are records [t, n, s] so that a number, a string,     *)
(* null and undefined can sit in one array.  A string is a sequence of     *)
(* one-character strings.  Arrays are 0-based in the source; At and Put    *)
(* translate an index to the 1-based sequences used here, and an array     *)
(* hole reads as Undefined just as it does in JavaScript.                  *)
(*                                                                         *)
(* Collaborators outside this file (fireEvent, ajax, setTimeout,           *)
(* columnArrayToDataTable) are not modelled as definitions: an emission is *)
(* an Append to `events` followed by the default function; a run-time      *)
(* TypeError propagates out of every enclosing callback, because there is  *)
(* no try/catch in the file.                                               *)
(***************************************************************************)
EXTENDS Integers, Sequences, FiniteSets, TLC

VARIABLES
    options,    \* store.options
    columns,    \* store.columns
    requests,   \* cycles whose HTTP request is in flight
    timers,     \* pending setTimeout callbacks
    events,     \* every fireEvent call, in order
    tables,     \* every columnArrayToDataTable call, in order
    uncaught,   \* cycles whose success handler ended with an exception
    cycles,     \* one record per fetchSheet call
    loadCalls,  \* number of load() calls made
    feed,       \* SpecBuilder: the json handed to getSheetColumns
    returned    \* SpecBuilder: the outcome of each getSheetColumns call

vars == <<options, columns, requests, timers, events, tables, uncaught,
          cycles, loadCalls, feed, returned>>

----------------------------------------------------------------------------
(* Bounds of the model *)

MaxCells == 2
MaxLoads == 2
MaxCycles == 3
MaxCalls == 2

(* Number.MAX_VALUE, the default endColumn and endRow: any index is below it *)
MAX_VALUE == 1000000

----------------------------------------------------------------------------
(* JavaScript values *)

Num(n) == [t |-> "number", n |-> n, s |-> <<>>]
Str(s) == [t |-> "string", n |-> 0, s |-> s]
NaN == [t |-> "NaN", n |-> 0, s |-> <<>>]
Null == [t |-> "null", n |-> 0, s |-> <<>>]
Undefined == [t |-> "undefined", n |-> 0, s |-> <<>>]

(* arr[k] of a JavaScript array: undefined beyond the length *)
At(arr, k) == IF k >= 0 /\ k < Len(arr) THEN arr[k + 1] ELSE Undefined

(* arr[k] = v of a JavaScript array: the array grows, leaving holes *)
Put(arr, k, v) ==
    [m \in 1..(IF k + 1 > Len(arr) THEN k + 1 ELSE Len(arr)) |->
        IF m = k + 1 THEN v
        ELSE IF m <= Len(arr) THEN arr[m]
        ELSE Undefined]

(* String.prototype.indexOf for a one-character needle *)
IndexOf(s, ch) ==
    IF \E k \in 1..Len(s) : s[k] = ch
    THEN (CHOOSE k \in 1..Len(s) :
              s[k] = ch /\ \A m \in 1..(k - 1) : s[m] # ch) - 1
    ELSE -1

Digits == <<"0", "1", "2", "3", "4", "5", "6", "7", "8", "9">>

IsDigit(ch) == \E d \in 1..10 : Digits[d] = ch

DigitValue(ch) == (CHOOSE d \in 1..10 : Digits[d] = ch) - 1

(* the longest prefix of s made of digits, read as a decimal numeral *)
RECURSIVE DigitPrefix(_, _, _)
DigitPrefix(s, k, acc) ==
    IF k <= Len(s) /\ IsDigit(s[k])
    THEN DigitPrefix(s, k + 1, acc * 10 + DigitValue(s[k]))
    ELSE acc

(* parseFloat on the numerals of the model: NaN when no digit leads *)
ParseFloat(s) ==
    IF Len(s) > 0 /\ IsDigit(s[1]) THEN Num(DigitPrefix(s, 1, 0)) ELSE NaN

(* x * 100 of a parsed number *)
Times100(v) == IF v.t = "number" THEN Num(v.n * 100) ELSE NaN

RECURSIVE NumeralOf(_)
NumeralOf(n) ==
    IF n < 10 THEN <<Digits[n + 1]>>
    ELSE Append(NumeralOf(n \div 10), Digits[(n % 10) + 1])

(* '' + v *)
ToStr(v) ==
    CASE v.t = "number" -> NumeralOf(v.n)
      [] v.t = "string" -> v.s
      [] v.t = "NaN" -> <<"N", "a", "N">>
      [] v.t = "null" -> <<"n", "u", "l", "l">>
      [] OTHER -> <<"u", "n", "d", "e", "f", "i", "n", "e", "d">>

----------------------------------------------------------------------------
(* The cell feed: json.feed.entry, each entry's gs$cell with its 1-based   *)
(* row and col, its text $t and its numericValue.  An absent numericValue  *)
(* and an empty one are both falsy and are both modelled as <<>>.          *)

Rows == 1..2
Cols == 1..2

Contents ==
    { [text |-> <<"5">>, numericValue |-> <<"5">>],
      [text |-> <<"1", "0", "%">>, numericValue |-> <<"1", "0">>],
      [text |-> <<"%", "5">>, numericValue |-> <<"5">>],
      [text |-> <<"1", "/", "2">>, numericValue |-> <<"5">>],
      [text |-> <<"2", "-", "1">>, numericValue |-> <<"5">>],
      [text |-> <<"a">>, numericValue |-> <<>>],
      [text |-> <<>>, numericValue |-> <<>>] }

Cells ==
    { [row |-> r, col |-> c, text |-> x.text, numericValue |-> x.numericValue] :
          r \in Rows, c \in Cols, x \in Contents }

(* json.feed.entry may be missing altogether *)
NoEntry == [hasEntry |-> FALSE, entry |-> <<>>]

Feeds ==
    {NoEntry} \cup
    { [hasEntry |-> TRUE, entry |-> e] :
          e \in UNION { [1..n -> Cells] : n \in 0..MaxCells } }

(* The window of the options; start indexes are 0-based and not negative *)
Windows ==
    { [startColumn |-> sc, endColumn |-> ec, startRow |-> sr, endRow |-> er] :
          sc \in {0, 1}, ec \in {0, MAX_VALUE},
          sr \in {0, 1}, er \in {0, MAX_VALUE} }

(* the windows of the pipeline: the default ends, every start *)
SampleWindows ==
    { w \in Windows : w.endColumn = MAX_VALUE /\ w.endRow = MAX_VALUE }

----------------------------------------------------------------------------
(* getSheetColumns *)

Max(a, b) == IF a >= b THEN a ELSE b

(* the first loop: the largest col (which = "col") or row over the cells *)
RECURSIVE ScanMax(_, _, _, _)
ScanMax(cells, i, which, acc) ==
    IF i < Len(cells)
    THEN ScanMax(cells, i + 1, which,
                 Max(acc, IF which = "col" THEN cells[i + 1].col
                          ELSE cells[i + 1].row))
    ELSE acc

(* the second loop: columns[i - startColumn] = [] for the i of the window *)
RECURSIVE AllocColumns(_, _, _, _)
AllocColumns(cols, i, colCount, opts) ==
    IF i < colCount
    THEN AllocColumns(
             IF i >= opts.startColumn /\ i <= opts.endColumn
             THEN Put(cols, i - opts.startColumn, <<>>)
             ELSE cols,
             i + 1, colCount, opts)
    ELSE cols

(* the value computed for a cell inside the window *)
CellValue(cellInner) ==
    IF Len(cellInner.numericValue) > 0
    THEN IF IndexOf(cellInner.text, "/") >= 0 \/ IndexOf(cellInner.text, "-") >= 0
         THEN Str(cellInner.text)
         ELSE IF IndexOf(cellInner.text, "%") > 0
         THEN Times100(ParseFloat(cellInner.numericValue))
         ELSE ParseFloat(cellInner.numericValue)
    ELSE IF Len(cellInner.text) > 0
    THEN Str(cellInner.text)
    ELSE Null

InWindow(gc, gr, opts) ==
    /\ gc >= opts.startColumn /\ gc <= opts.endColumn
    /\ gr >= opts.startRow /\ gr <= opts.endRow

(* the third loop: columns[gc - startColumn][gr - startRow] = val *)
RECURSIVE CellLoop(_, _, _, _)
CellLoop(cols, cells, i, opts) ==
    IF i < Len(cells)
    THEN LET cell == cells[i + 1]
             gr == cell.row - 1
             gc == cell.col - 1
         IN  CellLoop(
                 IF InWindow(gc, gr, opts)
                 THEN [cols EXCEPT ![gc - opts.startColumn + 1] =
                           Put(@, gr - opts.startRow, CellValue(cell))]
                 ELSE cols,
                 cells, i + 1, opts)
    ELSE cols

(* The last loops: for (i..colCount) for (j = 0; j < cellCount; i++).  The *)
(* inner loop advances i, never j, and does not test i: it leaves only by  *)
(* reading columns[i][j] of a column that does not exist, a TypeError.     *)
RECURSIVE FillOuter(_, _, _, _)
RECURSIVE FillInner(_, _, _, _, _)
FillOuter(cols, i, colCount, cellCount) ==
    IF i < colCount
    THEN FillInner(cols, i, 0, colCount, cellCount)
    ELSE [outcome |-> "return", columns |-> cols]

FillInner(cols, i, j, colCount, cellCount) ==
    IF j < cellCount
    THEN IF i >= Len(cols)
         THEN [outcome |-> "throw", columns |-> cols]
         ELSE FillInner(
                  IF At(cols[i + 1], j) = Undefined
                  THEN [cols EXCEPT ![i + 1] = Put(@, j, Null)]
                  ELSE cols,
                  i + 1, j, colCount, cellCount)
    ELSE FillOuter(cols, i + 1, colCount, cellCount)

(* getSheetColumns(json) under store.options: how the call ends, the array *)
(* it returns (or held when it threw), and the array after the cell loop   *)
getSheetColumns(json, opts) ==
    LET cells == IF json.hasEntry THEN json.entry ELSE <<>>
        cellCount == Len(cells)
        colCount == ScanMax(cells, 0, "col", 0)
        rowCount == ScanMax(cells, 0, "row", 0)
        allocated == AllocColumns(<<>>, 0, colCount, opts)
        assigned == CellLoop(allocated, cells, 0, opts)
        filled == FillOuter(assigned, 0, colCount, cellCount)
    IN  [outcome |-> filled.outcome,
         columns |-> filled.columns,
         assigned |-> assigned,
         colCount |-> colCount,
         rowCount |-> rowCount]

----------------------------------------------------------------------------
(* The load pipeline *)

Keys == {"", "key"}
RefreshRates == {1, 2}
ErrorTexts == {"timeout", "Not Found"}

(* the responses the transport hands to the success handler *)
SampleFeeds ==
    { NoEntry,
      [hasEntry |-> TRUE, entry |-> <<>>],
      [hasEntry |-> TRUE, entry |->
          << [row |-> 1, col |-> 1, text |-> <<"5">>, numericValue |-> <<"5">>] >>],
      [hasEntry |-> TRUE, entry |->
          << [row |-> 1, col |-> 2, text |-> <<"a">>, numericValue |-> <<>>] >>],
      [hasEntry |-> TRUE, entry |->
          << [row |-> 1, col |-> 1, text |-> <<"a">>, numericValue |-> <<>>],
             [row |-> 2, col |-> 1, text |-> <<"1", "0", "%">>,
              numericValue |-> <<"1", "0">>] >>] }

(* one fireEvent call: its type, the cycle it belongs to and its payload *)
Event(type, c, json, cols, hdrs, text) ==
    [type |-> type, cycle |-> c, json |-> json, columns |-> cols,
     headers |-> hdrs, text |-> text]

(* the constructor: options merged over the defaults, columns = [] *)
Init ==
    /\ options \in
         { [googleSpreadsheetKey |-> k, enablePolling |-> p,
            dataRefreshRate |-> r, startColumn |-> w.startColumn,
            endColumn |-> w.endColumn, startRow |-> w.startRow,
            endRow |-> w.endRow] :
               k \in Keys, p \in BOOLEAN, r \in RefreshRates,
               w \in SampleWindows }
    /\ columns = <<>>
    /\ requests = {}
    /\ timers = {}
    /\ events = <<>>
    /\ tables = <<>>
    /\ uncaught = {}
    /\ cycles = <<>>
    /\ loadCalls = 0
    /\ feed = NoEntry
    /\ returned = <<>>

(* parseSheet(json), called in cycle c: what it returns ("false",          *)
(* "undefined", or "throw" when getSheetColumns threw), the events it      *)
(* emitted and store.columns when it ends                                  *)
parseSheet(c, json) ==
    LET cells == json.entry
    IN  IF ~json.hasEntry \/ Len(cells) = 0
        THEN [result |-> "false", emitted |-> <<>>, columns |-> columns]
        ELSE LET parse == Event("parse", c, json, <<>>, <<>>, "")
                 built == getSheetColumns(json, options)
             IN  IF built.outcome = "throw"
                 THEN [result |-> "throw", emitted |-> <<parse>>,
                       columns |-> columns]
                 ELSE [result |-> "undefined",
                       emitted |-> <<parse,
                                     Event("afterParse", c, NoEntry,
                                           built.columns, <<>>, "")>>,
                       columns |-> built.columns]

(* fetchSheet(): the ajax call; the request of a new cycle is in flight *)
fetchSheet(via) ==
    /\ Len(cycles) < MaxCycles
    /\ cycles' = Append(cycles, [via |-> via, status |-> "pending",
                                 json |-> NoEntry, text |-> "",
                                 scheduled |-> <<>>])
    /\ requests' = requests \cup {Len(cycles) + 1}

(* load() without the test of the key *)
loadWithoutKeyTest ==
    /\ loadCalls < MaxLoads
    /\ loadCalls' = loadCalls + 1
    /\ fetchSheet("load")
    /\ UNCHANGED <<options, columns, timers, events, tables, uncaught,
                   feed, returned>>

(* load() *)
load ==
    /\ loadCalls < MaxLoads
    /\ loadCalls' = loadCalls + 1
    /\ IF options.googleSpreadsheetKey # ""
       THEN fetchSheet("load")
       ELSE UNCHANGED <<cycles, requests>>
    /\ UNCHANGED <<options, columns, timers, events, tables, uncaught,
                   feed, returned>>

(* the header loop running one index too far: i <= colsCount *)
HeadersOneTooMany(cols) ==
    [i \in 1..(Len(cols) + 1) |->
        IF i <= Len(cols) THEN ToStr(At(cols[i], 0)) ELSE ToStr(Undefined)]

(* headers.push('' + store.columns[i][0]) for every column *)
Headers(cols) == [i \in 1..Len(cols) |-> ToStr(At(cols[i], 0))]

(* a success handler that sets the timer after it has emitted afterLoad *)
successTimerLast(c, json) ==
    /\ c \in requests
    /\ requests' = requests \ {c}
    /\ LET loadEv == Event("load", c, json, <<>>, <<>>, "")
           parsed == parseSheet(c, json)
           headers == Headers(parsed.columns)
           delay == options.dataRefreshRate * 1000
           afterLoad == Event("afterLoad", c, NoEntry, parsed.columns,
                              headers, "")
       IN  IF parsed.result = "throw"
           THEN /\ events' = Append(events, loadEv) \o parsed.emitted
                /\ uncaught' = uncaught \cup {c}
                /\ cycles' = [cycles EXCEPT ![c].status = "success",
                                            ![c].json = json]
                /\ UNCHANGED <<columns, tables, timers>>
           ELSE /\ columns' = parsed.columns
                /\ tables' = Append(tables, [cycle |-> c,
                                             columns |-> parsed.columns,
                                             headers |-> headers])
                /\ timers' = IF options.enablePolling
                             THEN timers \cup {[cycle |-> c, delay |-> delay]}
                             ELSE timers
                /\ cycles' = [cycles EXCEPT
                                 ![c].status = "success",
                                 ![c].json = json,
                                 ![c].scheduled =
                                     IF options.enablePolling
                                     THEN Append(@, [delay |-> delay,
                                                     at |-> Len(events) + 2
                                                            + Len(parsed.emitted)])
                                     ELSE @]
                /\ events' = Append(Append(events, loadEv) \o parsed.emitted,
                                    afterLoad)
                /\ UNCHANGED uncaught
    /\ UNCHANGED <<options, loadCalls, feed, returned>>

(* a success handler that stops when parseSheet returns false *)
successStopsOnFalse(c, json) ==
    /\ c \in requests
    /\ requests' = requests \ {c}
    /\ LET loadEv == Event("load", c, json, <<>>, <<>>, "")
           parsed == parseSheet(c, json)
           headers == Headers(parsed.columns)
           delay == options.dataRefreshRate * 1000
           afterLoad == Event("afterLoad", c, NoEntry, parsed.columns,
                              headers, "")
       IN  IF parsed.result \in {"throw", "false"}
           THEN /\ events' = Append(events, loadEv) \o parsed.emitted
                /\ uncaught' = IF parsed.result = "throw"
                               THEN uncaught \cup {c} ELSE uncaught
                /\ cycles' = [cycles EXCEPT ![c].status = "success",
                                            ![c].json = json]
                /\ UNCHANGED <<columns, tables, timers>>
           ELSE /\ columns' = parsed.columns
                /\ tables' = Append(tables, [cycle |-> c,
                                             columns |-> parsed.columns,
                                             headers |-> headers])
                /\ timers' = IF options.enablePolling
                             THEN timers \cup {[cycle |-> c, delay |-> delay]}
                             ELSE timers
                /\ cycles' = [cycles EXCEPT
                                 ![c].status = "success",
                                 ![c].json = json,
                                 ![c].scheduled =
                                     IF options.enablePolling
                                     THEN Append(@, [delay |-> delay,
                                                     at |-> Len(events) + 1
                                                            + Len(parsed.emitted)])
                                     ELSE @]
                /\ events' = Append(Append(events, loadEv) \o parsed.emitted,
                                    afterLoad)
                /\ UNCHANGED uncaught
    /\ UNCHANGED <<options, loadCalls, feed, returned>>

(* the success handler of the request of cycle c, given the response json *)
success(c, json) ==
    /\ c \in requests
    /\ requests' = requests \ {c}
    /\ LET loadEv == Event("load", c, json, <<>>, <<>>, "")
           parsed == parseSheet(c, json)
           headers == Headers(parsed.columns)
           delay == options.dataRefreshRate * 1000
           afterLoad == Event("afterLoad", c, NoEntry, parsed.columns,
                              headers, "")
       IN  IF parsed.result = "throw"
           THEN /\ events' = Append(events, loadEv) \o parsed.emitted
                /\ uncaught' = uncaught \cup {c}
                /\ cycles' = [cycles EXCEPT ![c].status = "success",
                                            ![c].json = json]
                /\ UNCHANGED <<columns, tables, timers>>
           ELSE /\ columns' = parsed.columns
                /\ tables' = Append(tables, [cycle |-> c,
                                             columns |-> parsed.columns,
                                             headers |-> headers])
                /\ timers' = IF options.enablePolling
                             THEN timers \cup {[cycle |-> c, delay |-> delay]}
                             ELSE timers
                /\ cycles' = [cycles EXCEPT
                                 ![c].status = "success",
                                 ![c].json = json,
                                 ![c].scheduled =
                                     IF options.enablePolling
                                     THEN Append(@, [delay |-> delay,
                                                     at |-> Len(events) + 1
                                                            + Len(parsed.emitted)])
                                     ELSE @]
                /\ events' = Append(Append(events, loadEv) \o parsed.emitted,
                                    afterLoad)
                /\ UNCHANGED uncaught
    /\ UNCHANGED <<options, loadCalls, feed, returned>>

(* an error handler that keeps the polling going *)
errorKeepsPolling(c, text) ==
    /\ c \in requests
    /\ requests' = requests \ {c}
    /\ events' = Append(events, Event("fail", c, NoEntry, <<>>, <<>>, text))
    /\ timers' = IF options.enablePolling
                 THEN timers \cup {[cycle |-> c,
                                    delay |-> options.dataRefreshRate * 1000]}
                 ELSE timers
    /\ cycles' = [cycles EXCEPT ![c].status = "error", ![c].text = text]
    /\ UNCHANGED <<options, columns, tables, uncaught, loadCalls,
                   feed, returned>>

(* an error handler that switches the polling off in the options *)
errorDisablesPolling(c, text) ==
    /\ c \in requests
    /\ requests' = requests \ {c}
    /\ events' = Append(events, Event("fail", c, NoEntry, <<>>, <<>>, text))
    /\ options' = [options EXCEPT !.enablePolling = FALSE]
    /\ cycles' = [cycles EXCEPT ![c].status = "error", ![c].text = text]
    /\ UNCHANGED <<columns, timers, tables, uncaught, loadCalls,
                   feed, returned>>

(* the error handler of the request of cycle c *)
error(c, text) ==
    /\ c \in requests
    /\ requests' = requests \ {c}
    /\ events' = Append(events, Event("fail", c, NoEntry, <<>>, <<>>, text))
    /\ cycles' = [cycles EXCEPT ![c].status = "error", ![c].text = text]
    /\ UNCHANGED <<options, columns, timers, tables, uncaught, loadCalls,
                   feed, returned>>

(* a callback registered with setInterval: it stays pending *)
timeoutRepeats(t) ==
    /\ t \in timers
    /\ fetchSheet("timer")
    /\ UNCHANGED <<options, columns, timers, events, tables, uncaught,
                   loadCalls, feed, returned>>

(* the setTimeout callback: store.fetchSheet() *)
timeout(t) ==
    /\ t \in timers
    /\ timers' = timers \ {t}
    /\ fetchSheet("timer")
    /\ UNCHANGED <<options, columns, events, tables, uncaught, loadCalls,
                   feed, returned>>

Next ==
    \/ load
    \/ \E c \in requests, json \in SampleFeeds : success(c, json)
    \/ \E c \in requests, text \in ErrorTexts : error(c, text)
    \/ \E t \in timers : timeout(t)

Spec == Init /\ [][Next]_vars

----------------------------------------------------------------------------
(* getSheetColumns on its own: every feed and window of the input sets *)

InitBuilder ==
    /\ options \in
         { [googleSpreadsheetKey |-> "key", enablePolling |-> FALSE,
            dataRefreshRate |-> 2, startColumn |-> w.startColumn,
            endColumn |-> w.endColumn, startRow |-> w.startRow,
            endRow |-> w.endRow] : w \in Windows }
    /\ feed \in Feeds
    /\ returned = <<>>
    /\ columns = <<>>
    /\ requests = {}
    /\ timers = {}
    /\ events = <<>>
    /\ tables = <<>>
    /\ uncaught = {}
    /\ cycles = <<>>
    /\ loadCalls = 0

(* a getSheetColumns that builds in store.columns instead of a local array *)
callGetSheetColumnsInStore ==
    /\ Len(returned) < MaxCalls
    /\ LET built == getSheetColumns(feed, options)
       IN  /\ returned' = Append(returned, built)
           /\ columns' = built.columns
    /\ UNCHANGED <<options, requests, timers, events, tables,
                   uncaught, cycles, loadCalls, feed>>

(* store.getSheetColumns(feed): the call reads store.options and writes    *)
(* only its own locals                                                     *)
callGetSheetColumns ==
    /\ Len(returned) < MaxCalls
    /\ returned' = Append(returned, getSheetColumns(feed, options))
    /\ UNCHANGED <<options, columns, requests, timers, events, tables,
                   uncaught, cycles, loadCalls, feed>>

NextBuilder == callGetSheetColumns

SpecBuilder == InitBuilder /\ [][NextBuilder]_vars

----------------------------------------------------------------------------
(* What the claims speak of *)

IsEmptyFeed(json) == ~json.hasEntry \/ Len(json.entry) = 0

EventsOf(c) == SelectSeq(events, LAMBDA e : e.cycle = c)

TypesOf(c) == [k \in 1..Len(EventsOf(c)) |-> EventsOf(c)[k].type]

Succeeded(c) == cycles[c].status = "success"

TimersScheduled ==
    LET RECURSIVE Sum(_)
        Sum(k) == IF k = 0 THEN 0 ELSE Len(cycles[k].scheduled) + Sum(k - 1)
    IN  Sum(Len(cycles))

(* gc, gr of a cell lie outside the window of opts *)
OutsideWindow(cell, opts) == ~InWindow(cell.col - 1, cell.row - 1, opts)

----------------------------------------------------------------------------
(* C1: a cycle that succeeds with a feed of zero entries constructs no     *)
(* table and emits none of parse, afterParse, afterLoad.                   *)
C1_EmptyFeedAbortsCycle ==
    \A c \in 1..Len(cycles) :
        Succeeded(c) /\ IsEmptyFeed(cycles[c].json) =>
            /\ \A k \in 1..Len(tables) : tables[k].cycle # c
            /\ \A k \in 1..Len(events) :
                   events[k].cycle = c =>
                       events[k].type \notin {"parse", "afterParse", "afterLoad"}

(* C2: a cycle whose request fails emits exactly one event, fail, with the *)
(* error text; it schedules no timer, and every fetch of the store comes   *)
(* from a load() call or from a timer that fired: there is no retry.       *)
C2_FailureEmitsOnlyFail ==
    /\ \A c \in 1..Len(cycles) :
           cycles[c].status = "error" =>
               /\ TypesOf(c) = <<"fail">>
               /\ EventsOf(c)[1].text = cycles[c].text
               /\ cycles[c].scheduled = <<>>
               /\ \A t \in timers : t.cycle # c
               /\ c \notin requests
    /\ Len(cycles) =
           (IF options.googleSpreadsheetKey # "" THEN loadCalls ELSE 0)
           + (TimersScheduled - Cardinality(timers))

C2_Witness ==
    \E c \in 1..Len(cycles) :
        /\ cycles[c].status = "error"
        /\ options.enablePolling
        /\ cycles[c].via = "timer"

(* C3: a cycle that succeeds with a non-empty feed schedules exactly one   *)
(* fetch, dataRefreshRate * 1000 ms later, when polling is enabled, and    *)
(* none when it is disabled.                                               *)
C3_SuccessSchedulesOneFetch ==
    \A c \in 1..Len(cycles) :
        Succeeded(c) /\ ~IsEmptyFeed(cycles[c].json) =>
            IF options.enablePolling
            THEN /\ Len(cycles[c].scheduled) = 1
                 /\ cycles[c].scheduled[1].delay = options.dataRefreshRate * 1000
            ELSE cycles[c].scheduled = <<>>

(* C4: a cycle that succeeds with a non-empty feed emits load, parse,      *)
(* afterParse, afterLoad once each, in that order; afterParse carries the  *)
(* columns just built and afterLoad the table built from them.             *)
C4_EventsOnceInOrder ==
    \A c \in 1..Len(cycles) :
        Succeeded(c) /\ ~IsEmptyFeed(cycles[c].json) =>
            /\ TypesOf(c) = <<"load", "parse", "afterParse", "afterLoad">>
            /\ EventsOf(c)[3].columns = EventsOf(c)[4].columns
            /\ \E k \in 1..Len(tables) :
                   /\ tables[k].cycle = c
                   /\ tables[k].columns = EventsOf(c)[3].columns

(* C5: no response makes an exception leave a handler of the store.        *)
C5_NoExceptionEscapes == uncaught = {}

(* C6: load() with an empty key changes nothing of the store: no request,  *)
(* no event, no timer, columns and options as they were; load() with a key *)
(* puts exactly one request in flight.                                     *)
C6_LoadNeedsKey ==
    [][loadCalls' # loadCalls =>
          IF options.googleSpreadsheetKey = ""
          THEN UNCHANGED <<options, columns, requests, timers, events,
                           tables, uncaught, cycles>>
          ELSE /\ requests \subseteq requests'
               /\ Cardinality(requests') = Cardinality(requests) + 1
               /\ Len(cycles') = Len(cycles) + 1
               /\ UNCHANGED <<options, columns, timers, events, tables,
                              uncaught>>]_vars

C6_Witness == options.googleSpreadsheetKey = "" /\ loadCalls >= 1

(* C7: after a single load() call, an in-flight request and a pending      *)
(* timer never exist together, nor two of either.                          *)
C7_NoOverlapInOneChain ==
    loadCalls <= 1 => Cardinality(requests) + Cardinality(timers) <= 1

C7_Witness ==
    /\ loadCalls = 1
    /\ options.enablePolling
    /\ Len(cycles) >= 2
    /\ requests # {}

(* C8: after a successful fetch with a non-empty feed, store.columns is    *)
(* the Column Set getSheetColumns returned for the latest such response.   *)
C8_ColumnsReplacedWholesale ==
    LET loads == { k \in 1..Len(events) :
                       events[k].type = "load" /\ ~IsEmptyFeed(events[k].json) }
    IN  loads # {} =>
            LET last == CHOOSE k \in loads : \A m \in loads : m <= k
                built == getSheetColumns(events[last].json, options)
            IN  built.outcome = "return" /\ columns = built.columns

(* C9: for a feed whose entries all lie outside the window,                *)
(* getSheetColumns returns a Column Set with no columns.                   *)
C9_OutsideWindowGivesEmpty ==
    \A k \in 1..Len(returned) :
        (\A i \in 1..Len(feed.entry) : OutsideWindow(feed.entry[i], options)) =>
            returned[k].outcome = "return" /\ returned[k].columns = <<>>

(* the value of C10 for a cell: text with / or - kept, a % anywhere in the *)
(* text multiplies by 100                                                  *)
C10_Value(cell) ==
    IF Len(cell.numericValue) > 0
    THEN IF \E k \in 1..Len(cell.text) : cell.text[k] \in {"/", "-"}
         THEN Str(cell.text)
         ELSE IF \E k \in 1..Len(cell.text) : cell.text[k] = "%"
         THEN Times100(ParseFloat(cell.numericValue))
         ELSE ParseFloat(cell.numericValue)
    ELSE IF cell.text # <<>> THEN Str(cell.text) ELSE Null

Dense(cols) ==
    \A i \in 1..Len(cols) :
        /\ Len(cols[i]) = Len(cols[1])
        /\ \A j \in 1..Len(cols[i]) : cols[i][j] # Undefined

(* C11: every call of getSheetColumns returns a dense Column Set: columns  *)
(* of one length, no position left undefined.                              *)
C11_ReturnsDenseColumnSet ==
    \A k \in 1..Len(returned) :
        returned[k].outcome = "return" /\ Dense(returned[k].columns)

(* C12: the Column Set getSheetColumns returns holds, for every cell of    *)
(* the feed inside the window, the value computed for the cell at column   *)
(* gc - startColumn, row gr - startRow, the last entry of a position       *)
(* winning.                                                                *)
C12_ResultHoldsWindowCells ==
    \A k \in 1..Len(returned) :
        /\ returned[k].outcome = "return"
        /\ \A i \in 1..Len(feed.entry) :
               LET cell == feed.entry[i]
                   gc == cell.col - 1
                   gr == cell.row - 1
               IN  (/\ InWindow(gc, gr, options)
                    /\ \A m \in (i + 1)..Len(feed.entry) :
                           feed.entry[m].col # cell.col
                           \/ feed.entry[m].row # cell.row)
                   => At(At(returned[k].columns, gc - options.startColumn),
                         gr - options.startRow) = CellValue(cell)

(* C13: every call of getSheetColumns ends at its return statement.        *)
C13_ReachesReturn ==
    \A k \in 1..Len(returned) : returned[k].outcome = "return"

(* C14: when load() was called several times and every response has been  *)
(* processed, in whatever order, store.columns is the Column Set built     *)
(* from the response processed last.                                       *)
C14_LastResponseWins ==
    (/\ loadCalls >= 2
     /\ Len(cycles) = loadCalls
     /\ \A c \in 1..Len(cycles) : cycles[c].via = "load"
     /\ requests = {}
     /\ events # <<>>)
    => LET lastCycle == events[Len(events)].cycle
           built == getSheetColumns(cycles[lastCycle].json, options)
       IN  Succeeded(lastCycle) /\ ~IsEmptyFeed(cycles[lastCycle].json)
           => built.outcome = "return" /\ columns = built.columns

C19_ColumnsAndOptionsKept ==
    [][/\ options' = options
       /\ (Len(events') > Len(events) =>
              LET first == events'[Len(events) + 1]
              IN  (\/ first.type = "fail"
                   \/ first.type = "load" /\ IsEmptyFeed(first.json))
                  => columns' = columns)]_vars

C19_Witness ==
    /\ \E m \in 1..Len(events) : events[m].type = "fail"
    /\ \E m \in 1..Len(events) :
           events[m].type = "load" /\ IsEmptyFeed(events[m].json)

====
